---- MODULE Spec2Model ----
(***************************************************************************)
(* The /processImage handler of src/main.py (process_image, lines 219-368) *)
(* as a state machine: each invocation walks the stages config check,      *)
(* fetch, raw upload, normalize (decode, resize, mode conversion), encode, *)
(* processed upload, report.  Invocations run concurrently and share the   *)
(* wall clock and the S3 bucket.  The remote origin, S3 and the codec are  *)
(* the environment: each call may succeed or raise.                        *)
(***************************************************************************)
EXTENDS Integers, Sequences, FiniteSets, TLC

VARIABLES
    config,   \* AWS_ACCESS_KEY_ID, AWS_SECRET_ACCESS_KEY, AWS_S3_BUCKET_NAME (module globals)
    now,      \* int(time.time() * 1000), as an offset in milliseconds
    origin,   \* the bodies the remote origins can serve
    bucket,   \* the S3 bucket: key -> stored object
    inv       \* invocation id -> the locals of that process_image call

vars == <<config, now, origin, bucket, inv>>

-----------------------------------------------------------------------------
(* Bounds of the model *)

MaxClock == 2           \* the clock takes the values 1..MaxClock
DimSlack == 2           \* widths and heights within DimSlack of a multiple of 4000
MaxMultiple == 2        \* multiples 0..MaxMultiple of 4000

-----------------------------------------------------------------------------
(* Configuration: os.getenv gives None when unset; an empty string is      *)
(* falsy too.                                                              *)

None == "None"

ConfigNames == {"AWS_ACCESS_KEY_ID", "AWS_SECRET_ACCESS_KEY", "AWS_S3_BUCKET_NAME"}

ConfigValues == {None, "", "set"}

Truthy(v) == v # None /\ v # ""

\* a slip: any() where all() is meant
AnyConfigured(cfg) == \E n \in ConfigNames : Truthy(cfg[n])

\* all([AWS_ACCESS_KEY_ID, AWS_SECRET_ACCESS_KEY, AWS_S3_BUCKET_NAME])
ConfigOk(cfg) == \A n \in ConfigNames : Truthy(cfg[n])

-----------------------------------------------------------------------------
(* Exceptions and the except clauses of process_image *)

RequestExceptions == {"ConnectionError", "Timeout", "HTTPError"}

StorageExceptions == {"ClientError", "EndpointConnectionError"}

\* a slip: the download failure reported as a server fault
HandlerStatusAllServer(exc) == 500

\* except RequestException -> 400; except ClientError -> 500; except Exception -> 500
HandlerStatus(exc) ==
    IF exc \in RequestExceptions THEN 400
    ELSE IF exc = "ClientError" THEN 500
    ELSE 500

\* Response.raise_for_status(): HTTPError for 4xx and 5xx only
RaisesForStatus(status) == 400 <= status /\ status < 600

Statuses == {200, 304, 404, 500}

-----------------------------------------------------------------------------
(* Content-Type and the storage keys *)

ContentTypeHeaders == {None, "image/png", "text/html"}

\* response.headers.get('Content-Type', 'image/jpeg')
ContentType(header) == IF header = None THEN "image/jpeg" ELSE header

\* ext_map.get(content_type, '.jpg')
Ext(content_type) ==
    CASE content_type = "image/jpeg" -> ".jpg"
      [] content_type = "image/png"  -> ".png"
      [] content_type = "image/gif"  -> ".gif"
      [] content_type = "image/webp" -> ".webp"
      [] content_type = "image/bmp"  -> ".bmp"
      [] content_type = "image/tiff" -> ".tiff"
      [] OTHER -> ".jpg"

VariantIds == {"product", "sku_7"}

\* f"images/{request.variant_id}_{timestamp}_raw"
RawFilename(variant_id, timestamp) ==
    "images/" \o variant_id \o "_" \o ToString(timestamp) \o "_raw"

\* f"images/{request.variant_id}_{timestamp}_processed.webp"
ProcessedFilename(variant_id, timestamp) ==
    "images/" \o variant_id \o "_" \o ToString(timestamp) \o "_processed.webp"

\* f"{raw_filename}{original_ext}"
RawFilenameWithExt(raw_filename, content_type) == raw_filename \o Ext(content_type)

-----------------------------------------------------------------------------
(* Geometry: the resize computation of lines 291-311 *)

max_dimension == 4000

Max(a, b) == IF a >= b THEN a ELSE b

Min(a, b) == IF a <= b THEN a ELSE b

RECURSIVE GCD(_, _)
GCD(a, b) == IF b = 0 THEN a ELSE GCD(b, a % b)

RECURSIVE IsPowerOfTwo(_)
IsPowerOfTwo(n) == IF n = 1 THEN TRUE ELSE IF n % 2 = 1 THEN FALSE ELSE IsPowerOfTwo(n \div 2)

\* max_dimension / larger is an exact double iff its denominator is a power of two
ScaleExact(larger) == IsPowerOfTwo(larger \div GCD(larger, max_dimension))

\* a slip: the scale factor taken from the shorter side, max_dimension / other
RoundScaledWrongSide(other, larger) == {max_dimension}

\* round(other * (max_dimension / larger)): Python rounds to nearest, ties to
\* even; when the scale factor is not an exact double the product at an
\* exact tie lands on either side of .5
RoundScaled(other, larger) ==
    LET num == other * max_dimension
        q == num \div larger
        r == num % larger
    IN  IF 2 * r < larger THEN {q}
        ELSE IF 2 * r > larger THEN {q + 1}
        ELSE IF ScaleExact(larger) THEN {IF q % 2 = 0 THEN q ELSE q + 1}
        ELSE {q, q + 1}

\* a slip: and where or is meant
NeedsResizeBoth(w, h) == w > max_dimension /\ h > max_dimension

\* original_width > max_dimension or original_height > max_dimension
NeedsResize(w, h) == w > max_dimension \/ h > max_dimension

\* the (new_width, new_height) pairs the computation can give
NewSizes(w, h) ==
    IF ~NeedsResize(w, h) THEN {<<w, h>>}
    ELSE IF w >= h THEN {<<max_dimension, nh>> : nh \in RoundScaled(h, w)}
    ELSE {<<nw, max_dimension>> : nw \in RoundScaled(w, h)}

\* Image.resize raises ValueError for a size with a side below 1
ResizeRaises(size) == size[1] < 1 \/ size[2] < 1

\* Image.open refuses more than 2 * Image.MAX_IMAGE_PIXELS pixels
TooManyPixels(w, h) == w * h > 2 * (((1024 * 1024 * 1024) \div 4) \div 3)

-----------------------------------------------------------------------------
(* Pixel modes: the conversion of lines 313-319 *)

Modes == {"1", "L", "P", "RGB", "RGBA", "CMYK", "YCbCr", "LAB", "HSV", "I", "F",
          "LA", "PA", "RGBX", "RGBa", "La", "I;16"}

\* modes that carry an alpha channel
AlphaModes == {"RGBA", "LA", "PA", "RGBa", "La"}

\* modes whose pixels index a palette
PaletteModes == {"P", "PA"}

\* the mode of the image handed to image.save
ConvertMode(mode) ==
    IF mode \in {"RGBA", "LA", "P"}
    THEN IF mode = "P" THEN "RGBA" ELSE mode
    ELSE IF mode # "RGB" THEN "RGB"
    ELSE mode

-----------------------------------------------------------------------------
(* The environment's inputs *)

\* a response body that is no image (an empty or truncated body, an error page)
Corrupt == [width |-> 0, height |-> 0, mode |-> None]

Picture(w, h, m) == [width |-> w, height |-> h, mode |-> m]

\* widths and heights near the multiples of max_dimension, the sizes of the
\* documented scenarios, and sizes whose scaled side is an exact tie
Dims ==
    {d \in UNION {((k * max_dimension) - DimSlack)..((k * max_dimension) + DimSlack) :
                    k \in 0..MaxMultiple} : d >= 1}
    \cup {600, 800, 2000} \cup {85, 5440}

GeometryOrigin == {Picture(w, h, "RGB") : w \in Dims, h \in Dims}

ModesOrigin == {Picture(800, 600, m) : m \in Modes} \cup {Picture(8000, 2000, m) : m \in Modes}

PipelineOrigin ==
    {Picture(800, 600, "RGBA"), Picture(8000, 2000, "RGB"), Picture(10000, 1, "P")}

-----------------------------------------------------------------------------
(* The locals of one invocation *)

\* the requests in flight at the same time
Invocations == {"a", "b"}

\* the invocations of this run
Running(i) == i \in DOMAIN inv

Stages == <<"fetch", "raw_upload", "normalize", "encode", "processed_upload", "report">>

Idle ==
    [pc |-> "idle", variant_id |-> None, timestamp |-> 0,
     raw_filename |-> None, processed_filename |-> None,
     status_code |-> 0, content_type |-> None, raw_filename_with_ext |-> None,
     raw_image_data |-> Corrupt, image |-> Corrupt,
     original_width |-> 0, original_height |-> 0,
     new_width |-> 0, new_height |-> 0, needs_resize |-> FALSE,
     exc |-> None, http_status |-> 0, calls |-> <<>>]

\* one component call, with its outcome, appended to the invocation's history
Called(r, stage, ok) == [r EXCEPT !.calls = Append(@, [stage |-> stage, ok |-> ok])]

\* a slip: the error is swallowed and the stage is entered again
RaiseAndRetry(r, exc) == [r EXCEPT !.exc = exc]

\* an exception leaves the try block: the matching except clause raises the
\* HTTPException that ends the invocation
Raise(r, exc) ==
    [r EXCEPT !.pc = "error", !.exc = exc, !.http_status = HandlerStatus(exc)]

\* a slip: a cleanup that deletes the invocation's objects on failure
PutObjectFailedCleanup(b, i) == [k \in {k \in DOMAIN b : b[k].by # i} |-> b[k]]

\* put_object raised: the bucket is as it was
PutObjectFailed(b, i) == b

\* s3_client.put_object(Bucket, Key, Body, ContentType) succeeded
PutObject(b, key, i, content_type) ==
    (key :> [by |-> i, content_type |-> content_type]) @@ b

-----------------------------------------------------------------------------
(* The steps of process_image *)

\* lines 230-241: the configuration check, the timestamp and the two keys
Start(i) ==
    /\ Running(i)
    /\ inv[i].pc = "idle"
    /\ \E variant_id \in VariantIds :
         inv' = [inv EXCEPT ![i] =
            IF ~ConfigOk(config)
            THEN Raise([@ EXCEPT !.variant_id = variant_id], "HTTPException")
            ELSE [@ EXCEPT !.pc = "fetch",
                           !.variant_id = variant_id,
                           !.timestamp = now,
                           !.raw_filename = RawFilename(variant_id, now),
                           !.processed_filename = ProcessedFilename(variant_id, now)]]
    /\ UNCHANGED <<config, now, origin, bucket>>

\* lines 255-272: requests.get, raise_for_status, content type, extension, body
FetchRaises(i) ==
    /\ Running(i)
    /\ inv[i].pc = "fetch"
    /\ \E exc \in {"ConnectionError", "Timeout"} :
         inv' = [inv EXCEPT ![i] = Raise(Called(@, "fetch", FALSE), exc)]
    /\ UNCHANGED <<config, now, origin, bucket>>

FetchResponds(i) ==
    /\ Running(i)
    /\ inv[i].pc = "fetch"
    /\ \E status \in Statuses, header \in ContentTypeHeaders, body \in origin \cup {Corrupt} :
         /\ status # 200 => (body = Corrupt)
         /\ RaisesForStatus(status) => (header = None)
         /\ inv' = [inv EXCEPT ![i] =
              IF RaisesForStatus(status)
              THEN Raise(Called([@ EXCEPT !.status_code = status], "fetch", FALSE), "HTTPError")
              ELSE Called([@ EXCEPT !.pc = "raw_upload",
                                    !.status_code = status,
                                    !.content_type = ContentType(header),
                                    !.raw_filename_with_ext =
                                        RawFilenameWithExt(inv[i].raw_filename, ContentType(header)),
                                    !.raw_image_data = body],
                          "fetch", TRUE)]
    /\ UNCHANGED <<config, now, origin, bucket>>

\* lines 274-283: get_s3_client and the put_object of the raw bytes
RawUploadRaises(i) ==
    /\ Running(i)
    /\ inv[i].pc = "raw_upload"
    /\ \E exc \in StorageExceptions :
         inv' = [inv EXCEPT ![i] = Raise(Called(@, "raw_upload", FALSE), exc)]
    /\ bucket' = PutObjectFailed(bucket, i)
    /\ UNCHANGED <<config, now, origin>>

\* a slip: the raw bytes are never uploaded
RawUploadSkipped(i) ==
    /\ Running(i)
    /\ inv[i].pc = "raw_upload"
    /\ inv' = [inv EXCEPT ![i].pc = "normalize"]
    /\ UNCHANGED <<config, now, origin, bucket>>

RawUpload(i) ==
    /\ Running(i)
    /\ inv[i].pc = "raw_upload"
    /\ bucket' = PutObject(bucket, inv[i].raw_filename_with_ext, i, inv[i].content_type)
    /\ inv' = [inv EXCEPT ![i] = Called([@ EXCEPT !.pc = "normalize"], "raw_upload", TRUE)]
    /\ UNCHANGED <<config, now, origin>>

\* lines 285-319: Image.open, the size, the resize and the mode conversion
Normalize(i) ==
    /\ Running(i)
    /\ inv[i].pc = "normalize"
    /\ LET data == inv[i].raw_image_data
           w == data.width
           h == data.height
       IN  IF data = Corrupt
           THEN inv' = [inv EXCEPT ![i] =
                    Raise(Called(@, "normalize", FALSE), "UnidentifiedImageError")]
           ELSE IF TooManyPixels(w, h)
           THEN inv' = [inv EXCEPT ![i] =
                    Raise(Called(@, "normalize", FALSE), "DecompressionBombError")]
           ELSE \E size \in NewSizes(w, h) :
                  LET measured == [inv[i] EXCEPT !.original_width = w,
                                                !.original_height = h,
                                                !.needs_resize = NeedsResize(w, h),
                                                !.new_width = size[1],
                                                !.new_height = size[2]]
                  IN  inv' = [inv EXCEPT ![i] =
                         IF NeedsResize(w, h) /\ ResizeRaises(size)
                         THEN Raise(Called(measured, "normalize", FALSE), "ValueError")
                         ELSE Called([measured EXCEPT
                                        !.pc = "encode",
                                        !.image = Picture(size[1], size[2],
                                                          ConvertMode(data.mode))],
                                     "normalize", TRUE)]
    /\ UNCHANGED <<config, now, origin, bucket>>

\* lines 321-325: image.save(webp_buffer, format='WEBP', ...)
EncodeRaises(i) ==
    /\ Running(i)
    /\ inv[i].pc = "encode"
    /\ inv' = [inv EXCEPT ![i] = Raise(Called(@, "encode", FALSE), "OSError")]
    /\ UNCHANGED <<config, now, origin, bucket>>

Encode(i) ==
    /\ Running(i)
    /\ inv[i].pc = "encode"
    /\ inv' = [inv EXCEPT ![i] = Called([@ EXCEPT !.pc = "processed_upload"], "encode", TRUE)]
    /\ UNCHANGED <<config, now, origin, bucket>>

\* lines 327-333: the put_object of the WebP bytes
ProcessedUploadRaises(i) ==
    /\ Running(i)
    /\ inv[i].pc = "processed_upload"
    /\ \E exc \in StorageExceptions :
         inv' = [inv EXCEPT ![i] = Raise(Called(@, "processed_upload", FALSE), exc)]
    /\ bucket' = PutObjectFailed(bucket, i)
    /\ UNCHANGED <<config, now, origin>>

ProcessedUpload(i) ==
    /\ Running(i)
    /\ inv[i].pc = "processed_upload"
    /\ bucket' = PutObject(bucket, inv[i].processed_filename, i, "image/webp")
    /\ inv' = [inv EXCEPT ![i] =
                 Called([@ EXCEPT !.pc = "report"], "processed_upload", TRUE)]
    /\ UNCHANGED <<config, now, origin>>

\* lines 335-362: the URLs and the APIResponse
Report(i) ==
    /\ Running(i)
    /\ inv[i].pc = "report"
    /\ inv' = [inv EXCEPT ![i] =
                 Called([@ EXCEPT !.pc = "returned", !.http_status = 200], "report", TRUE)]
    /\ UNCHANGED <<config, now, origin, bucket>>

\* a millisecond passes
Tick ==
    /\ now < MaxClock
    /\ now' = now + 1
    /\ UNCHANGED <<config, origin, bucket, inv>>

-----------------------------------------------------------------------------
(* Specifications *)

EmptyBucket == [k \in {} |-> None]

InitWith(ids, bodies) ==
    /\ config \in [ConfigNames -> ConfigValues]
    /\ now = 1
    /\ origin = bodies
    /\ bucket = EmptyBucket
    /\ inv = [i \in ids |-> Idle]

Init == InitWith(Invocations, PipelineOrigin)

InitGeometry == InitWith({"a"}, GeometryOrigin)

InitModes == InitWith({"a"}, ModesOrigin)

Next ==
    \/ Tick
    \/ \E i \in Invocations :
         \/ Start(i)
         \/ FetchRaises(i)
         \/ FetchResponds(i)
         \/ RawUploadRaises(i)
         \/ RawUpload(i)
         \/ Normalize(i)
         \/ EncodeRaises(i)
         \/ Encode(i)
         \/ ProcessedUploadRaises(i)
         \/ ProcessedUpload(i)
         \/ Report(i)

\* concurrent invocations over a small set of bodies
Spec == Init /\ [][Next]_vars

\* one invocation over the widths and heights of Dims
SpecGeometry == InitGeometry /\ [][Next]_vars

\* one invocation over the pixel modes
SpecModes == InitModes /\ [][Next]_vars

-----------------------------------------------------------------------------
(* What the claims speak of *)

Ids == DOMAIN inv

\* the calls of invocation i to stage, and those of them that succeeded
Attempts(i, stage) == {k \in DOMAIN inv[i].calls : inv[i].calls[k].stage = stage}

Successes(i, stage) == {k \in Attempts(i, stage) : inv[i].calls[k].ok}

\* the put_object calls of invocation i
StorageCalls(i) == Attempts(i, "raw_upload") \cup Attempts(i, "processed_upload")

\* the objects in the bucket that invocation i wrote
StoredBy(i) == {k \in DOMAIN bucket : bucket[k].by = i}

\* the stage whose failure ended invocation i ("config" when no component was called)
FailedStage(i) ==
    IF inv[i].calls = <<>> THEN "config" ELSE inv[i].calls[Len(inv[i].calls)].stage

\* the image of invocation i has been decoded and measured
Measured(i) == inv[i].original_width >= 1 /\ inv[i].original_height >= 1

\* the keys invocation i has derived so far
Keys(i) == {inv[i].raw_filename_with_ext, inv[i].processed_filename} \ {None}

-----------------------------------------------------------------------------
\* C1: an invocation that returns its report made exactly one put_object of the
\* raw bytes and exactly one of the processed bytes, both successful; an
\* invocation that failed at the configuration check or at the fetch made no
\* put_object call and stored nothing.
C1_ArtifactsPerInvocation ==
    \A i \in Ids :
        /\ inv[i].pc = "returned" =>
              /\ Cardinality(Attempts(i, "raw_upload")) = 1
              /\ Cardinality(Successes(i, "raw_upload")) = 1
              /\ Cardinality(Attempts(i, "processed_upload")) = 1
              /\ Cardinality(Successes(i, "processed_upload")) = 1
        /\ (inv[i].pc = "error" /\ FailedStage(i) \in {"config", "fetch"}) =>
              /\ StorageCalls(i) = {}
              /\ StoredBy(i) = {}

C1_Witness ==
    \E i, j \in Ids :
        /\ inv[i].pc = "returned"
        /\ Cardinality(StorageCalls(i)) = 2
        /\ inv[j].pc = "error" /\ FailedStage(j) = "fetch"

\* C2: the calls of an invocation are a prefix of fetch, raw upload, normalize,
\* encode, processed upload, report, each made once; only the last call can
\* have failed, a failed call ends the invocation in the error outcome, and the
\* report is returned only after all six calls succeeded.
C2_StageOrder ==
    \A i \in Ids :
        LET c == inv[i].calls
        IN  /\ Len(c) <= Len(Stages)
            /\ \A k \in DOMAIN c :
                  /\ c[k].stage = Stages[k]
                  /\ k < Len(c) => c[k].ok
            /\ (c # <<>> /\ ~c[Len(c)].ok) => inv[i].pc = "error"
            /\ inv[i].pc = "error" => (c = <<>> \/ ~c[Len(c)].ok)
            /\ inv[i].pc = "returned" <=> (Len(c) = Len(Stages) /\ c[Len(c)].ok)

C2_Witness ==
    \E i, j \in Ids :
        /\ inv[i].pc = "error" /\ Len(inv[i].calls) = 3 /\ FailedStage(i) = "normalize"
        /\ inv[j].pc = "returned" /\ Len(inv[j].calls) = 6

\* C3: when the access key id, the secret access key or the bucket name is
\* unset, a started invocation has failed with status 500 without a fetch and
\* without a storage call.
C3_ConfigurationFault ==
    \A i \in Ids :
        ((\E n \in ConfigNames : config[n] = None) /\ inv[i].pc # "idle") =>
            /\ inv[i].pc = "error"
            /\ inv[i].http_status = 500
            /\ inv[i].calls = <<>>
            /\ StoredBy(i) = {}

C3_Witness ==
    \E i \in Ids :
        /\ config["AWS_S3_BUCKET_NAME"] = None
        /\ config["AWS_ACCESS_KEY_ID"] = "set"
        /\ inv[i].pc = "error"
        /\ inv[i].exc = "HTTPException"

\* the fetch of invocation i was made and raised: a network failure, a timeout,
\* or a final status of 4xx or 5xx
FetchRaised(i) ==
    /\ inv[i].calls # <<>>
    /\ \/ inv[i].exc \in {"ConnectionError", "Timeout"}
       \/ (inv[i].status_code >= 400 /\ inv[i].status_code < 600)

\* the fetch of invocation i was made and did not end in a 2xx response
FetchNot2xx(i) ==
    /\ inv[i].calls # <<>>
    /\ \/ inv[i].exc \in {"ConnectionError", "Timeout"}
       \/ ~(inv[i].status_code >= 200 /\ inv[i].status_code < 300)

FetchOutcomeIsClientFault(i) ==
    /\ inv[i].pc = "error"
    /\ inv[i].http_status = 400
    /\ StorageCalls(i) = {}
    /\ StoredBy(i) = {}

C5_OrphanedRaw ==
    \A i \in Ids :
        (Successes(i, "raw_upload") # {} /\ Attempts(i, "processed_upload") # {}
            /\ Successes(i, "processed_upload") = {}) =>
            /\ inv[i].pc = "error"
            /\ inv[i].http_status = 500
            /\ Attempts(i, "report") = {}
            /\ inv[i].raw_filename_with_ext \in DOMAIN bucket
            /\ inv[i].processed_filename \notin StoredBy(i)
            /\ Cardinality(StorageCalls(i)) = 2

C5_Witness ==
    \E i \in Ids :
        /\ inv[i].pc = "error"
        /\ FailedStage(i) = "processed_upload"
        /\ inv[i].exc = "ClientError"
        /\ StoredBy(i) = {inv[i].raw_filename_with_ext}

\* C6: for a decoded image of W x H, the larger final side is
\* min(max(W, H), 4000); needs_resize is true exactly when max(W, H) > 4000,
\* and when it is false the final size is W x H.
C6_FinalDimensions ==
    \A i \in Ids :
        Measured(i) =>
            LET r == inv[i]
                larger == Max(r.original_width, r.original_height)
            IN  /\ Max(r.new_width, r.new_height) = Min(larger, 4000)
                /\ r.new_width <= 4000 /\ r.new_height <= 4000
                /\ r.needs_resize <=> (larger > 4000)
                /\ ~r.needs_resize =>
                      (r.new_width = r.original_width /\ r.new_height = r.original_height)

C6_Witness ==
    \E i \in Ids :
        /\ inv[i].original_width = 8000 /\ inv[i].original_height = 2000
        /\ inv[i].new_width = 4000 /\ inv[i].new_height = 1000
        /\ inv[i].needs_resize
        /\ inv[i].pc = "returned"

\* C7: when the image is resized, the final shorter side is less than one pixel
\* away from shorter * 4000 / max(W, H).
C7_AspectWithinOnePixel ==
    \A i \in Ids :
        (Measured(i) /\ inv[i].needs_resize) =>
            LET r == inv[i]
                larger == Max(r.original_width, r.original_height)
                shorter == Min(r.original_width, r.original_height)
                final == IF r.original_width >= r.original_height
                         THEN r.new_height ELSE r.new_width
                off == (final * larger) - (shorter * 4000)
            IN  -larger < off /\ off < larger

C7_Witness ==
    \E i \in Ids :
        /\ inv[i].original_width = 85 /\ inv[i].original_height = 5440
        /\ inv[i].needs_resize
        /\ inv[i].new_width \in {62, 63} /\ inv[i].new_height = 4000
        /\ inv[i].pc = "encode"

\* the modes of Pillow that can hold transparency per pixel
AlphaCapable == {"RGBA", "LA"}

\* C8: the mode handed to the encoder is never palette-indexed; a source mode
\* with an alpha channel gives an alpha-capable mode; a source mode without
\* alpha and without palette, other than RGB, gives RGB.
C8_ModeNormalization ==
    \A i \in Ids :
        inv[i].image # Corrupt =>
            LET src == inv[i].raw_image_data.mode
                out == inv[i].image.mode
            IN  /\ out \notin PaletteModes
                /\ src \in AlphaModes => out \in AlphaCapable
                /\ (src \notin AlphaModes \cup PaletteModes /\ src # "RGB") => out = "RGB"

\* C9: the raw key and the processed key of an invocation differ, and no key
\* of one invocation is a key of another invocation.
C9_KeysNeverShared ==
    \A i \in Ids :
        /\ inv[i].raw_filename_with_ext # None =>
              inv[i].raw_filename_with_ext # inv[i].processed_filename
        /\ \A j \in Ids \ {i} : Keys(i) \cap Keys(j) = {}

\* C10: the final width and the final height computed for a decoded image are
\* both at least 1.
C10_PositiveFinalDimensions ==
    \A i \in Ids : Measured(i) => (inv[i].new_width >= 1 /\ inv[i].new_height >= 1)

====
